---- MODULE Spec2Model ----
(***************************************************************************)
(* Task manager: the student window (MainTaskManagerUI), the teacher       *)
(* window (TeacherAccessWindow) and the per-user JSON files they share.    *)
(*                                                                         *)
(* Time is counted in seconds since 2025-01-01 00:00.  A due date text     *)
(* "YYYY-MM-DD HH:MM" is the record of its fields (it has no seconds),     *)
(* any other text a record with valid = FALSE.  A date text "YYYY-MM-DD"   *)
(* is the record of its fields, None is NoDate.                            *)
(***************************************************************************)
EXTENDS Integers, Sequences, FiniteSets, TLC

VARIABLES
    now,                  \* datetime.now(), in seconds
    screen,               \* widget shown by the QStackedWidget: "auth", "student", "teacher"
    current_username,     \* MainTaskManagerUI.current_username
    tasks,                \* MainTaskManagerUI.tasks, a list of Task objects
    user_points,          \* MainTaskManagerUI.user_points
    user_streak_data,     \* MainTaskManagerUI.user_streak_data
    reminders_sent,       \* MainTaskManagerUI.reminders_sent, the set of keys mapped to True
    update_target,        \* the Task captured by the "Update Task" button, or NoTarget
    task_files,           \* <user>_tasks.json for every user
    gamification_files,   \* <user>_gamification.json for every user
    current_edited_task,  \* TeacherAccessWindow.current_edited_task (+ student), or NoTarget
    next_uid,             \* identity given to the next Task that is created
    last_op,              \* the handler that ran last and what it emitted
    notify_count,         \* history: notifications per (task, threshold) in this user session
    edited,               \* history: tasks edited with update_task in this user session
    award_count,          \* history: number of times a task awarded points
    completion_days,      \* history: days on which update_streak ran
    users_data,           \* users.json: the phone_number of every user, "" for none
    TWILIO_AVAILABLE,     \* whether the import of twilio.rest succeeded
    sms_threads,          \* the _send_sms threads that have been started and not finished
    attachment_files      \* the files below ATTACHMENTS_DIR, as <<user, directory, file>>

vars == <<now, screen, current_username, tasks, user_points, user_streak_data,
          reminders_sent, update_target, task_files, gamification_files,
          current_edited_task, next_uid, last_op, notify_count, edited,
          award_count, completion_days, users_data, TWILIO_AVAILABLE, sms_threads,
          attachment_files>>

-----------------------------------------------------------------------------
(* Bounds of the model *)

MaxUid == 2              \* Task objects created by add_task and assign_task
MaxTicks == 3            \* clock steps of ten minutes
MaxSortLen == 2          \* length of the collections handed to the sort
MaxDay == 4              \* days covered by the streak specifications
MaxStreakTasks == 4      \* tasks that can be completed in the streak specifications
MaxStreak == 3           \* largest persisted streak of the one-step specification
MaxScansAfterDue == 2    \* scans that follow the due time in the timer specification
MaxFileLen == 2          \* records of the task files that exist before the first login
MaxStatusLen == 2        \* tasks shown in the display-status specification
MaxRefreshes == 2        \* refreshes of the display-status specification
MaxAttachments == 2      \* attachments recorded in one task

(* Program constants *)

ReminderInterval == 30        \* seconds between two reminder scans
RefreshInterval == 60         \* seconds between two refreshes of the task list
OneHour == 3600               \* timedelta(hours=1)
TenMinutes == 600             \* timedelta(minutes=10)
SecondsPerMinute == 60        \* resolution of "%Y-%m-%d %H:%M"
SecondsPerDay == 86400        \* resolution of datetime.date
MinutesPerDay == 1440
CompletionPoints == 10        \* gain_points(10)

None == "None"
NoDate == [year |-> 0, month |-> 0, day |-> 0]   \* last_completed_date = None
NoFile == [exists |-> FALSE, json |-> TRUE, data |-> <<>>]   \* os.path.exists(filename) is False
NoTarget == [active |-> FALSE, uid |-> 0, detached |-> FALSE, name |-> ""]
DefaultStreak == [current_streak |-> 0, last_completed_date |-> NoDate]
NoGamification == [exists |-> FALSE, points |-> 0, streak |-> DefaultStreak]
NoEdit == [active |-> FALSE, student |-> "", name |-> "", due_date |-> [valid |-> FALSE, year |-> 0, month |-> 0, day |-> 0, hour |-> 0, minute |-> 0]]

Students == {"alice", "bob"}
AllNames == <<"a/b", "essay", "lab", "quiz", "read", "talk">>
Thresholds == {"_1hr", "_10min", "_overdue"}
Uids == 1..(MaxUid + MaxSortLen + MaxStreakTasks)

Min(a, b) == IF a < b THEN a ELSE b

(* Python compares names as strings; the names of the model are listed in *)
(* increasing order, "" before all of them.                              *)
NameRank(name) ==
    IF name = "" THEN 0 ELSE CHOOSE i \in 1..Len(AllNames) : AllNames[i] = name

-----------------------------------------------------------------------------
(* task_model.py *)

(* Calendar of the year 2025; day 0 is 2025-01-01 *)
MonthLengths == <<31, 28, 31, 30, 31, 30, 31, 31, 30, 31, 30, 31>>

RECURSIVE DaysBeforeMonth(_)
DaysBeforeMonth(month) ==
    IF month = 1 THEN 0 ELSE DaysBeforeMonth(month - 1) + MonthLengths[month - 1]

RECURSIVE MonthOfDay(_, _)
MonthOfDay(day, month) ==
    IF day < DaysBeforeMonth(month) + MonthLengths[month] THEN month
    ELSE MonthOfDay(day, month + 1)

(* date.strftime("%Y-%m-%d") and datetime.strptime(text, "%Y-%m-%d").date() *)
strftime_date(day) ==
    LET month == MonthOfDay(day, 1)
    IN  [year |-> 2025, month |-> month, day |-> day - DaysBeforeMonth(month) + 1]

strptime_date(text) == DaysBeforeMonth(text.month) + text.day - 1

(* QDateTime.toString("yyyy-MM-dd HH:mm") of an instant: the seconds are dropped *)
DueText(seconds) ==
    LET minutes == seconds \div SecondsPerMinute
        date == strftime_date(minutes \div MinutesPerDay)
    IN  [valid |-> TRUE, year |-> date.year, month |-> date.month, day |-> date.day,
         hour |-> (minutes % MinutesPerDay) \div 60, minute |-> minutes % 60]

(* a text that "%Y-%m-%d %H:%M" does not parse (legacy data) *)
BadDueText == [valid |-> FALSE, year |-> 0, month |-> 0, day |-> 0, hour |-> 0, minute |-> 0]

(* uid is the identity of the Task object; it is kept with the record in the *)
(* file so that the object loaded from a record can be followed, and no     *)
(* handler reads it                                                         *)
TaskObject(uid, name, due_date, description, next_step, priority, completed, reminded, attachments) ==
    [uid |-> uid, name |-> name, due_date |-> due_date, description |-> description,
     next_step |-> next_step, priority |-> priority, completed |-> completed,
     reminded |-> reminded, attachments |-> attachments]

(* Task(task_name, due_date_str, description, next_step, priority) as the handlers *)
(* call it, the description and next-step inputs left empty                     *)
Task(uid, name, due_date, priority, completed) ==
    TaskObject(uid, name, due_date, "", "", priority, completed, FALSE, <<>>)

(* to_dict that forgets the reminded flag *)
to_dict_NoReminded(task) ==
    [uid |-> task.uid, name |-> task.name, due_date |-> task.due_date,
     description |-> task.description, next_step |-> task.next_step,
     priority |-> task.priority, completed |-> task.completed,
     attachments |-> task.attachments]

to_dict(task) ==
    [uid |-> task.uid, name |-> task.name, due_date |-> task.due_date,
     description |-> task.description, next_step |-> task.next_step,
     priority |-> task.priority, completed |-> task.completed,
     reminded |-> task.reminded, attachments |-> task.attachments]

(* data.get(key, default) *)
Get(data, key, default) == IF key \in DOMAIN data THEN data[key] ELSE default

(* data["name"] or data["due_date"] raises KeyError *)
KeyError(data) == "name" \notin DOMAIN data \/ "due_date" \notin DOMAIN data

from_dict(data) ==
    TaskObject(data.uid, data["name"], data["due_date"],
               Get(data, "description", ""), Get(data, "next_step", ""),
               Get(data, "priority", "Medium"), Get(data, "completed", FALSE),
               Get(data, "reminded", FALSE), Get(data, "attachments", <<>>))

DumpTasks(list) == [i \in 1..Len(list) |-> to_dict(list[i])]
LoadTasks(data) == [i \in 1..Len(data) |-> from_dict(data[i])]

(* datetime.strptime(text, "%Y-%m-%d %H:%M") in seconds; raises ValueError *)
(* (valid = FALSE) on any other text                                       *)
strptime(due_date) ==
    ((strptime_date(due_date) * MinutesPerDay) + due_date.hour * 60 + due_date.minute)
        * SecondsPerMinute

(* datetime.now().date() *)
DateOf(t) == t \div SecondsPerDay

-----------------------------------------------------------------------------
(* display_tasks: the sort *)

priority_value(priority) ==
    CASE priority = "High" -> 0
      [] priority = "Medium" -> 1
      [] priority = "Low" -> 2
      [] OTHER -> 1

(* sort_key with the overdue test turned round *)
sort_key_OverdueLast(task, t) ==
    IF ~task.due_date.valid
    THEN <<2, 0, NameRank(task.name)>>
    ELSE LET due_dt == strptime(task.due_date)
             is_overdue == ~task.completed /\ due_dt > t
         IN  IF task.completed THEN <<3, 0, NameRank(task.name)>>
             ELSE IF is_overdue THEN <<0, due_dt, NameRank(task.name)>>
             ELSE <<1, priority_value(task.priority), due_dt, NameRank(task.name)>>

(* what a call returns in the model when an exception leaves it *)
Raised == <<>>

(* sort_key without its except clause: the ValueError of strptime leaves it *)
sort_key_NoExcept(task, t) ==
    IF ~task.due_date.valid
    THEN Raised
    ELSE LET due_dt == strptime(task.due_date)
             is_overdue == ~task.completed /\ due_dt < t
         IN  IF task.completed THEN <<3, 0, NameRank(task.name)>>
             ELSE IF is_overdue THEN <<0, due_dt, NameRank(task.name)>>
             ELSE <<1, priority_value(task.priority), due_dt, NameRank(task.name)>>

sort_key(task, t) ==
    IF ~task.due_date.valid
    THEN <<2, 0, NameRank(task.name)>>
    ELSE LET due_dt == strptime(task.due_date)
             is_overdue == ~task.completed /\ due_dt < t
         IN  IF task.completed THEN <<3, 0, NameRank(task.name)>>
             ELSE IF is_overdue THEN <<0, due_dt, NameRank(task.name)>>
             ELSE <<1, priority_value(task.priority), due_dt, NameRank(task.name)>>

RECURSIVE TupleLess(_, _)
TupleLess(a, b) ==
    IF a = <<>> THEN b # <<>>
    ELSE IF b = <<>> THEN FALSE
    ELSE IF Head(a) < Head(b) THEN TRUE
    ELSE IF Head(a) > Head(b) THEN FALSE
    ELSE TupleLess(Tail(a), Tail(b))

(* a sort that is not stable: an element goes before the elements of equal key *)
RECURSIVE InsertByKey_BeforeEqual(_, _, _)
InsertByKey_BeforeEqual(task, sorted, t) ==
    IF sorted = <<>> THEN <<task>>
    ELSE IF ~TupleLess(sort_key(Head(sorted), t), sort_key(task, t))
         THEN <<task>> \o sorted
         ELSE <<Head(sorted)>> \o InsertByKey_BeforeEqual(task, Tail(sorted), t)

(* list.sort is stable: an element goes after every element not greater *)
RECURSIVE InsertByKey(_, _, _)
InsertByKey(task, sorted, t) ==
    IF sorted = <<>> THEN <<task>>
    ELSE IF TupleLess(sort_key(task, t), sort_key(Head(sorted), t))
         THEN <<task>> \o sorted
         ELSE <<Head(sorted)>> \o InsertByKey(task, Tail(sorted), t)

RECURSIVE SortFrom(_, _, _)
SortFrom(rest, sorted, t) ==
    IF rest = <<>> THEN sorted
    ELSE SortFrom(Tail(rest), InsertByKey(Head(rest), sorted, t), t)

(* the status in an item's text: "OVERDUE!", "left" for "<h>h <m>m left", "" for a text
   without status, "Invalid Date" from the except clause *)
time_status(task, t) ==
    IF ~task.due_date.valid THEN "Invalid Date"
    ELSE LET time_diff == strptime(task.due_date) - t
         IN  IF ~task.completed /\ time_diff < 0 THEN "OVERDUE!"
             ELSE IF ~task.completed /\ time_diff < SecondsPerDay THEN "left"
             ELSE ""

(* the items added to task_list_widget, in order *)
ItemTexts(list, t) ==
    [i \in DOMAIN list |-> [uid |-> list[i].uid, time_status |-> time_status(list[i], t)]]

(* an exception of the key function leaves list.sort, and the list as it was *)
sort_raises(list, t) == \E i \in DOMAIN list : sort_key(list[i], t) = Raised

SortedTasks(list, t) == IF sort_raises(list, t) THEN list ELSE SortFrom(list, <<>>, t)

-----------------------------------------------------------------------------
(* Helpers of the handlers *)

Idle(op) ==
    [op |-> op, fired |-> <<>>, awarded |-> 0, target |-> 0, items |-> <<>>,
     sms |-> <<>>, outcome |-> ""]

(* next((t for t in self.tasks if t.name == name), None): index of the first match, 0 for None *)
FirstNamed(list, name) ==
    IF \E i \in 1..Len(list) : list[i].name = name
    THEN CHOOSE i \in 1..Len(list) :
            /\ list[i].name = name
            /\ \A j \in 1..(i - 1) : list[j].name # name
    ELSE 0

IndexOfUid(list, uid) ==
    IF \E i \in 1..Len(list) : list[i].uid = uid
    THEN CHOOSE i \in 1..Len(list) : list[i].uid = uid
    ELSE 0

(* [task for task in self.tasks if task.name != name] *)
WithoutName(list, name) == SelectSeq(list, LAMBDA task : task.name # name)

(* save_tasks: json.dump of every task's to_dict into <current_username>_tasks.json *)
save_tasks(files, username, list) ==
    [files EXCEPT ![username] = [exists |-> TRUE, json |-> TRUE, data |-> DumpTasks(list)]]

(* the Task still referenced by the "Update Task" button stays alive when it *)
(* leaves self.tasks; the model keeps the name the code reads from it        *)
Detach(target, old, new) ==
    IF target.active /\ ~target.detached /\ IndexOfUid(new, target.uid) = 0
    THEN [target EXCEPT !.detached = TRUE, !.name = old[IndexOfUid(old, target.uid)].name]
    ELSE target

-----------------------------------------------------------------------------
(* Gamification *)

gain_points(points, amount) == points + amount

(* update_streak that counts a completion after a gap as a consecutive day *)
update_streak_NoReset(streak, t) ==
    LET today == DateOf(t)
        last_date_str == streak.last_completed_date
        current ==
            IF last_date_str # NoDate
            THEN LET last_date == strptime_date(last_date_str)
                 IN  IF today = last_date THEN streak.current_streak
                     ELSE streak.current_streak + 1
            ELSE 1
    IN  [current_streak |-> current, last_completed_date |-> strftime_date(today)]

(* update_streak that takes every earlier day for the same day *)
update_streak_SameOrEarlier(streak, t) ==
    LET today == DateOf(t)
        last_date_str == streak.last_completed_date
        current ==
            IF last_date_str # NoDate
            THEN LET last_date == strptime_date(last_date_str)
                 IN  IF today <= last_date THEN streak.current_streak
                     ELSE IF today = last_date + 1 THEN streak.current_streak + 1
                     ELSE 1
            ELSE 1
    IN  [current_streak |-> current, last_completed_date |-> strftime_date(today)]

(* update_streak that leaves the date alone when it raises the streak *)
update_streak_StaleDate(streak, t) ==
    LET today == DateOf(t)
        last_date_str == streak.last_completed_date
        raised == last_date_str # NoDate /\ today = strptime_date(last_date_str) + 1
        current ==
            IF last_date_str # NoDate
            THEN LET last_date == strptime_date(last_date_str)
                 IN  IF today = last_date THEN streak.current_streak
                     ELSE IF today = last_date + 1 THEN streak.current_streak + 1
                     ELSE 1
            ELSE 1
    IN  [current_streak |-> current,
         last_completed_date |-> IF raised THEN last_date_str ELSE strftime_date(today)]

update_streak(streak, t) ==
    LET today == DateOf(t)
        last_date_str == streak.last_completed_date
        current ==
            IF last_date_str # NoDate
            THEN LET last_date == strptime_date(last_date_str)
                 IN  IF today = last_date THEN streak.current_streak
                     ELSE IF today = last_date + 1 THEN streak.current_streak + 1
                     ELSE 1
            ELSE 1
    IN  [current_streak |-> current, last_completed_date |-> strftime_date(today)]

(* save_gamification_data that writes the points and keeps the streak of the file *)
save_gamification_data_PointsOnly(files, username, points, streak) ==
    [files EXCEPT ![username] = [exists |-> TRUE, points |-> points, streak |-> @.streak]]

save_gamification_data(files, username, points, streak) ==
    [files EXCEPT ![username] = [exists |-> TRUE, points |-> points, streak |-> streak]]

-----------------------------------------------------------------------------
(* check_for_reminders *)

(* task.name + suffix: two keys are equal exactly when name and suffix are, *)
(* because no suffix is the tail of another                                 *)
ReminderKey(name, suffix) == <<name, suffix>>

(* the chain without its 10-minute branch *)
ReminderBranch_NoTenMinutes(task, sent, t) ==
    IF task.completed \/ ~task.due_date.valid THEN ""
    ELSE LET time_until_due == strptime(task.due_date) - t
         IN  IF 0 < time_until_due /\ time_until_due <= OneHour
                /\ ReminderKey(task.name, "_1hr") \notin sent
             THEN "_1hr"
             ELSE IF time_until_due < 0
                     /\ ReminderKey(task.name, "_overdue") \notin sent
             THEN "_overdue"
             ELSE ""

(* the chain without the look-up of the overdue key *)
ReminderBranch_OverdueAgain(task, sent, t) ==
    IF task.completed \/ ~task.due_date.valid THEN ""
    ELSE LET time_until_due == strptime(task.due_date) - t
         IN  IF 0 < time_until_due /\ time_until_due <= OneHour
                /\ ReminderKey(task.name, "_1hr") \notin sent
             THEN "_1hr"
             ELSE IF 0 < time_until_due /\ time_until_due <= TenMinutes
                     /\ ReminderKey(task.name, "_10min") \notin sent
             THEN "_10min"
             ELSE IF time_until_due < 0
             THEN "_overdue"
             ELSE ""

(* the chain whose overdue branch is taken at the due time already *)
ReminderBranch_AtDueTime(task, sent, t) ==
    IF task.completed \/ ~task.due_date.valid THEN ""
    ELSE LET time_until_due == strptime(task.due_date) - t
         IN  IF 0 < time_until_due /\ time_until_due <= OneHour
                /\ ReminderKey(task.name, "_1hr") \notin sent
             THEN "_1hr"
             ELSE IF 0 < time_until_due /\ time_until_due <= TenMinutes
                     /\ ReminderKey(task.name, "_10min") \notin sent
             THEN "_10min"
             ELSE IF time_until_due <= 0
                     /\ ReminderKey(task.name, "_overdue") \notin sent
             THEN "_overdue"
             ELSE ""

(* the chain applied to completed tasks as well *)
ReminderBranch_CompletedToo(task, sent, t) ==
    IF ~task.due_date.valid THEN ""
    ELSE LET time_until_due == strptime(task.due_date) - t
         IN  IF 0 < time_until_due /\ time_until_due <= OneHour
                /\ ReminderKey(task.name, "_1hr") \notin sent
             THEN "_1hr"
             ELSE IF 0 < time_until_due /\ time_until_due <= TenMinutes
                     /\ ReminderKey(task.name, "_10min") \notin sent
             THEN "_10min"
             ELSE IF time_until_due < 0
                     /\ ReminderKey(task.name, "_overdue") \notin sent
             THEN "_overdue"
             ELSE ""

(* the branch of the if/elif chain taken for one task, "" when none is *)
ReminderBranch(task, sent, t) ==
    IF task.completed \/ ~task.due_date.valid THEN ""
    ELSE LET time_until_due == strptime(task.due_date) - t
         IN  IF 0 < time_until_due /\ time_until_due <= OneHour
                /\ ReminderKey(task.name, "_1hr") \notin sent
             THEN "_1hr"
             ELSE IF 0 < time_until_due /\ time_until_due <= TenMinutes
                     /\ ReminderKey(task.name, "_10min") \notin sent
             THEN "_10min"
             ELSE IF time_until_due < 0
                     /\ ReminderKey(task.name, "_overdue") \notin sent
             THEN "_overdue"
             ELSE ""

(* the loop over self.tasks: the keys marked and the notifications emitted, in order *)
RECURSIVE ScanTasks(_, _, _, _)
ScanTasks(rest, sent, fired, t) ==
    IF rest = <<>> THEN [sent |-> sent, fired |-> fired]
    ELSE LET task == Head(rest)
             branch == ReminderBranch(task, sent, t)
         IN  IF branch = ""
             THEN ScanTasks(Tail(rest), sent, fired, t)
             ELSE ScanTasks(Tail(rest),
                            sent \cup {ReminderKey(task.name, branch)},
                            Append(fired, [uid |-> task.uid, threshold |-> branch]),
                            t)

Bump(count, fired) ==
    [k \in DOMAIN count |->
        IF \E i \in 1..Len(fired) : <<fired[i].uid, fired[i].threshold>> = k
        THEN Min(count[k] + 1, 2) ELSE count[k]]

NoNotifications == [k \in Uids \X Thresholds |-> 0]
NoAwards == [u \in Uids |-> 0]

-----------------------------------------------------------------------------
(* MainTaskManagerUI: the student window *)

TeacherVars == <<current_edited_task>>
GamificationVars == <<user_points, user_streak_data, gamification_files, award_count, completion_days>>
ReminderVars == <<reminders_sent, notify_count>>
DeliveryVars == <<users_data, TWILIO_AVAILABLE, sms_threads>>
OutsideVars == <<users_data, TWILIO_AVAILABLE, sms_threads, attachment_files>>

(* load_tasks: the file's records in order, then display_tasks sorts them; a file *)
(* that json.load rejects (JSONDecodeError) gives the empty list                 *)
load_tasks(files, username, t) ==
    IF files[username].exists /\ files[username].json
    THEN SortedTasks(LoadTasks(files[username].data), t)
    ELSE <<>>

(* Task.from_dict raises KeyError inside load_tasks, which catches JSONDecodeError only *)
load_tasks_raises(files, username) ==
    /\ files[username].exists
    /\ files[username].json
    /\ \E i \in DOMAIN files[username].data : KeyError(files[username].data[i])

(* self.tasks when the KeyError leaves load_tasks: the records before the bad one *)
LoadedBeforeKeyError(data) ==
    LET bad == CHOOSE i \in DOMAIN data :
                   KeyError(data[i]) /\ \A j \in 1..(i - 1) : ~KeyError(data[j])
    IN  LoadTasks(SubSeq(data, 1, bad - 1))

(* handle_login -> show_main_window_for_role(username, "student") -> set_current_user *)
(* an exception that leaves load_tasks is not caught anywhere up to the Qt slot: the  *)
(* process is aborted or, with a PyQt that only prints the traceback, goes on with the *)
(* login page                                                                         *)
set_current_user(username) ==
    /\ screen = "auth"
    /\ current_username' = username
    /\ update_target' = Detach(update_target, tasks, <<>>)
    /\ IF load_tasks_raises(task_files, username)
       THEN /\ screen' \in {"auth", "crashed"}
            /\ tasks' = LoadedBeforeKeyError(task_files[username].data)
            /\ last_op' = Idle("KeyError")
            /\ UNCHANGED <<user_points, user_streak_data, reminders_sent, notify_count,
                           edited>>
       ELSE /\ screen' = "student"
            /\ tasks' = load_tasks(task_files, username, now)
            /\ user_points' = IF gamification_files[username].exists
                               THEN gamification_files[username].points ELSE user_points
            /\ user_streak_data' = IF gamification_files[username].exists
                                    THEN gamification_files[username].streak
                                    ELSE user_streak_data
            /\ reminders_sent' = {}
            /\ notify_count' = NoNotifications
            /\ edited' = {}
            /\ last_op' = Idle("set_current_user")
    /\ UNCHANGED <<now, task_files, gamification_files, current_edited_task, next_uid,
                   award_count, completion_days>>
    /\ UNCHANGED OutsideVars

logout ==
    /\ screen = "student"
    /\ screen' = "auth"
    /\ last_op' = Idle("logout")
    /\ UNCHANGED <<now, current_username, tasks, update_target, task_files, next_uid, edited>>
    /\ UNCHANGED <<GamificationVars, ReminderVars, TeacherVars, OutsideVars>>

(* the refresh timer, every 60 s while the window exists *)
display_tasks ==
    /\ current_username # None
    /\ screen # "crashed"
    /\ tasks' = SortedTasks(tasks, now)
    /\ IF sort_raises(tasks, now)
       THEN screen' = "crashed" /\ last_op' = Idle("ValueError")
       ELSE /\ screen' = screen
            /\ last_op' = [Idle("display_tasks") EXCEPT
                              !.items = ItemTexts(SortedTasks(tasks, now), now)]
    /\ UNCHANGED <<now, current_username, update_target, task_files, next_uid, edited>>
    /\ UNCHANGED <<GamificationVars, ReminderVars, TeacherVars, OutsideVars>>

(* the "Add Task" button while it is connected to add_task *)
add_task(task_name, due_seconds, priority) ==
    /\ screen = "student"
    /\ ~update_target.active
    /\ next_uid <= MaxUid
    /\ last_op' = Idle("add_task")
    /\ IF task_name = ""
       THEN UNCHANGED <<tasks, task_files, next_uid>>
       ELSE LET new_task == Task(next_uid, task_name, DueText(due_seconds), priority, FALSE)
                appended == Append(tasks, new_task)
            IN  /\ task_files' = save_tasks(task_files, current_username, appended)
                /\ tasks' = SortedTasks(appended, now)
                /\ next_uid' = next_uid + 1
    /\ UNCHANGED <<now, screen, current_username, update_target, edited>>
    /\ UNCHANGED <<GamificationVars, ReminderVars, TeacherVars, OutsideVars>>

(* add_task in a process that is killed inside save_tasks: before open(filename, "w"), *)
(* between the open, which empties the file, and the end of json.dump, or after it   *)
add_task_killed(task_name, due_seconds, priority, written) ==
    /\ screen = "student"
    /\ ~update_target.active
    /\ next_uid <= MaxUid
    /\ task_name # ""
    /\ LET new_task == Task(next_uid, task_name, DueText(due_seconds), priority, FALSE)
           appended == Append(tasks, new_task)
       IN  /\ tasks' = appended
           /\ task_files' =
                  CASE written = "nothing" -> task_files
                    [] written = "partial" ->
                          [task_files EXCEPT ![current_username] =
                              [exists |-> TRUE, json |-> FALSE, data |-> <<>>]]
                    [] written = "all" -> save_tasks(task_files, current_username, appended)
    /\ next_uid' = next_uid + 1
    /\ screen' = "crashed"
    /\ last_op' = Idle("add_task_killed")
    /\ UNCHANGED <<now, current_username, update_target, edited>>
    /\ UNCHANGED <<GamificationVars, ReminderVars, TeacherVars, OutsideVars>>

(* "Edit": the button is reconnected to update_task(selected_task) *)
edit_task(row) ==
    /\ screen = "student"
    /\ row \in 1..Len(tasks)
    /\ LET selected == FirstNamed(tasks, tasks[row].name)
       IN  update_target' = [active |-> TRUE, uid |-> tasks[selected].uid,
                             detached |-> FALSE, name |-> ""]
    /\ last_op' = Idle("edit_task")
    /\ UNCHANGED <<now, screen, current_username, tasks, task_files, next_uid, edited>>
    /\ UNCHANGED <<GamificationVars, ReminderVars, TeacherVars, OutsideVars>>

(* update_task that forgets the reminders sent for the task it changes *)
update_task_ResetsReminders(new_task_name, new_due_seconds, new_priority) ==
    /\ screen = "student"
    /\ update_target.active
    /\ LET at == IndexOfUid(tasks, update_target.uid)
           attached == ~update_target.detached /\ at # 0
           original_name == IF attached THEN tasks[at].name ELSE update_target.name
           rejected ==
               \/ new_task_name = ""
               \/ /\ new_task_name # original_name
                  /\ \E i \in 1..Len(tasks) : tasks[i].name = new_task_name
           updated ==
               IF attached
               THEN [tasks EXCEPT ![at] = [@ EXCEPT !.name = new_task_name,
                                                    !.due_date = DueText(new_due_seconds),
                                                    !.priority = new_priority]]
               ELSE tasks
       IN  IF rejected
           THEN UNCHANGED <<tasks, task_files, update_target, edited>>
           ELSE /\ task_files' = save_tasks(task_files, current_username, updated)
                /\ tasks' = SortedTasks(updated, now)
                /\ update_target' = NoTarget
                /\ edited' = IF attached THEN edited \cup {update_target.uid} ELSE edited
    /\ last_op' = Idle("update_task")
    /\ reminders_sent' = {key \in reminders_sent : key[1] # new_task_name}
    /\ UNCHANGED <<now, screen, current_username, next_uid, notify_count>>
    /\ UNCHANGED <<GamificationVars, TeacherVars, OutsideVars>>

(* the "Update Task" button *)
update_task(new_task_name, new_due_seconds, new_priority) ==
    /\ screen = "student"
    /\ update_target.active
    /\ LET at == IndexOfUid(tasks, update_target.uid)
           attached == ~update_target.detached /\ at # 0
           original_name == IF attached THEN tasks[at].name ELSE update_target.name
           rejected ==
               \/ new_task_name = ""
               \/ /\ new_task_name # original_name
                  /\ \E i \in 1..Len(tasks) : tasks[i].name = new_task_name
           updated ==
               IF attached
               THEN [tasks EXCEPT ![at] = [@ EXCEPT !.name = new_task_name,
                                                    !.due_date = DueText(new_due_seconds),
                                                    !.priority = new_priority]]
               ELSE tasks
       IN  IF rejected
           THEN UNCHANGED <<tasks, task_files, update_target, edited>>
           ELSE /\ task_files' = save_tasks(task_files, current_username, updated)
                /\ tasks' = SortedTasks(updated, now)
                /\ update_target' = NoTarget
                /\ edited' = IF attached THEN edited \cup {update_target.uid} ELSE edited
    /\ last_op' = Idle("update_task")
    /\ UNCHANGED <<now, screen, current_username, next_uid>>
    /\ UNCHANGED <<GamificationVars, ReminderVars, TeacherVars, OutsideVars>>

(* attach_file_to_selected_task: name.replace(" ", "_").replace("/", "_").replace("\\", "_");
   of the names of the model only "a/b" holds one of the three characters *)
task_safe_name(name) == IF name = "a/b" THEN "a_b" ELSE name

(* delete_task_attachments: name.replace(" ", "_") joined to the path of the user's
   directory, where "a/b" is the directory b inside the directory a *)
task_attachments_dir(name) == name

(* shutil.rmtree(directory) if the directory exists: its files go *)
rmtree(files, username, directory) ==
    {file \in files : ~(file[1] = username /\ file[2] = directory)}

(* "Attach File" on the selected row with one file chosen in the dialog; overwrite is the
   answer to the question asked when the destination exists *)
attach_file_to_selected_task(row, file_name, overwrite) ==
    /\ screen = "student"
    /\ row \in 1..Len(tasks)
    /\ LET at == FirstNamed(tasks, tasks[row].name)
           destination_path ==
               <<current_username, task_safe_name(tasks[at].name), file_name>>
           skipped == destination_path \in attachment_files /\ ~overwrite
           recorded == \E k \in DOMAIN tasks[at].attachments :
                          tasks[at].attachments[k] = destination_path
           attached == IF skipped \/ recorded THEN tasks
                       ELSE [tasks EXCEPT ![at].attachments = Append(@, destination_path)]
       IN  /\ Len(tasks[at].attachments) < MaxAttachments
           /\ attachment_files' = IF skipped THEN attachment_files
                                  ELSE attachment_files \cup {destination_path}
           /\ tasks' = attached
           /\ task_files' = save_tasks(task_files, current_username, attached)
           /\ last_op' = [Idle("attach_file_to_selected_task") EXCEPT
                             !.target = tasks[at].uid]
    /\ UNCHANGED <<now, screen, current_username, update_target, next_uid, edited>>
    /\ UNCHANGED <<GamificationVars, ReminderVars, TeacherVars, DeliveryVars>>

(* "Remove Attachment" on entry k of the selected row's task, confirmed with Yes *)
remove_attached_file(row, k) ==
    /\ screen = "student"
    /\ row \in 1..Len(tasks)
    /\ LET at == FirstNamed(tasks, tasks[row].name)
       IN  /\ k \in DOMAIN tasks[at].attachments
           /\ LET file_path_to_remove == tasks[at].attachments[k]
                  removed == [tasks EXCEPT ![at].attachments =
                                 SelectSeq(@, LAMBDA path : path # file_path_to_remove)]
              IN  /\ attachment_files' = attachment_files \ {file_path_to_remove}
                  /\ tasks' = removed
                  /\ task_files' = save_tasks(task_files, current_username, removed)
           /\ last_op' = [Idle("remove_attached_file") EXCEPT !.target = tasks[at].uid]
    /\ UNCHANGED <<now, screen, current_username, update_target, next_uid, edited>>
    /\ UNCHANGED <<GamificationVars, ReminderVars, TeacherVars, DeliveryVars>>

(* "Delete", confirmed with Yes: the attachment directory of the first task of the
   selected row's name is removed, and every task of that name goes *)
delete_task(row) ==
    /\ screen = "student"
    /\ row \in 1..Len(tasks)
    /\ LET remaining == WithoutName(tasks, tasks[row].name)
       IN  /\ task_files' = save_tasks(task_files, current_username, remaining)
           /\ tasks' = SortedTasks(remaining, now)
           /\ update_target' = Detach(update_target, tasks, remaining)
    /\ attachment_files' =
           rmtree(attachment_files, current_username, task_attachments_dir(tasks[row].name))
    /\ last_op' = [Idle("delete_task") EXCEPT !.target = tasks[row].uid]
    /\ UNCHANGED <<now, screen, current_username, next_uid, edited>>
    /\ UNCHANGED <<GamificationVars, ReminderVars, TeacherVars, DeliveryVars>>

(* config.TWILIO_PHONE_NUMBER, and whether config.TWILIO_ACCOUNT_SID differs from the
   placeholder "YOUR_TWILIO_ACCOUNT_SID" *)
TWILIO_PHONE_NUMBER == "+1234567890"
TwilioSidConfigured == TRUE

(* get_user_contact_info(username).get("phone_number", "") *)
get_phone_number(users, username) == users[username]

(* send_reminder without the comparison of the two numbers *)
send_reminder_ToSender(phone_number, twilio_available) ==
    /\ phone_number # "" /\ twilio_available
    /\ twilio_available /\ TwilioSidConfigured /\ phone_number # ""

(* whether an emitted reminder gets its _send_sms thread: the test of check_for_reminders
   before it calls send_reminder(task, type, "sms"), the test of the elif of send_reminder,
   and the comparison of the recipient with the sender number *)
send_reminder(phone_number, twilio_available) ==
    /\ phone_number # "" /\ twilio_available
    /\ twilio_available /\ TwilioSidConfigured /\ phone_number # ""
    /\ phone_number # TWILIO_PHONE_NUMBER

(* the threads a scan starts, in order: users.json is the same for every task of a scan *)
StartedSms(fired, phone_number, twilio_available) ==
    IF send_reminder(phone_number, twilio_available)
    THEN [k \in DOMAIN fired |->
             [uid |-> fired[k].uid, threshold |-> fired[k].threshold, to |-> phone_number]]
    ELSE <<>>

(* threading.Thread(...).start() followed by join(): the scan waits for its deliveries *)
StartThreads_Joined(threads, started) == threads

(* threading.Thread(target=self._send_sms, ...).start() for every delivery of a scan *)
StartThreads(threads, started) == threads \cup {started[k] : k \in DOMAIN started}

(* mark_task_complete: send_reminder(task, "Task Completed", "sms") *)
CompletedSms(task) ==
    StartedSms(<<[uid |-> task.uid, threshold |-> "Task Completed"]>>,
               get_phone_number(users_data, current_username), TWILIO_AVAILABLE)

(* mark_task_complete without the test of task.completed *)
mark_task_complete_Again(row) ==
    /\ screen = "student"
    /\ row \in 1..Len(tasks)
    /\ LET found == FirstNamed(tasks, tasks[row].name)
           completed == [tasks EXCEPT ![found].completed = TRUE]
           points == gain_points(user_points, CompletionPoints)
           streak == update_streak(user_streak_data, now)
       IN  /\ last_op' = [Idle("mark_task_complete") EXCEPT
                             !.target = tasks[row].uid, !.awarded = CompletionPoints]
           /\ user_points' = points
           /\ user_streak_data' = streak
           /\ task_files' = save_tasks(task_files, current_username, completed)
           /\ gamification_files' =
                  save_gamification_data(gamification_files, current_username, points, streak)
           /\ tasks' = SortedTasks(completed, now)
           /\ award_count' = [award_count EXCEPT ![tasks[found].uid] = Min(@ + 1, 2)]
           /\ completion_days' = [completion_days EXCEPT
                                     ![current_username] = @ \cup {DateOf(now)}]
           /\ sms_threads' = StartThreads(sms_threads, CompletedSms(tasks[found]))
    /\ UNCHANGED <<now, screen, current_username, update_target, next_uid, edited>>
    /\ UNCHANGED <<ReminderVars, TeacherVars>>
    /\ UNCHANGED <<users_data, TWILIO_AVAILABLE, attachment_files>>

(* "Mark Complete" on the selected row *)
mark_task_complete(row) ==
    /\ screen = "student"
    /\ row \in 1..Len(tasks)
    /\ LET found == FirstNamed(tasks, tasks[row].name)
           completed == [tasks EXCEPT ![found].completed = TRUE]
           points == gain_points(user_points, CompletionPoints)
           streak == update_streak(user_streak_data, now)
       IN  IF tasks[found].completed
           THEN /\ last_op' = [Idle("mark_task_complete") EXCEPT !.target = tasks[row].uid]
                /\ UNCHANGED <<tasks, task_files, sms_threads>>
                /\ UNCHANGED GamificationVars
           ELSE /\ last_op' = [Idle("mark_task_complete") EXCEPT
                                   !.target = tasks[row].uid, !.awarded = CompletionPoints]
                /\ user_points' = points
                /\ user_streak_data' = streak
                /\ task_files' = save_tasks(task_files, current_username, completed)
                /\ gamification_files' =
                       save_gamification_data(gamification_files, current_username, points, streak)
                /\ tasks' = SortedTasks(completed, now)
                /\ award_count' = [award_count EXCEPT ![tasks[found].uid] = Min(@ + 1, 2)]
                /\ completion_days' = [completion_days EXCEPT
                                          ![current_username] = @ \cup {DateOf(now)}]
                /\ sms_threads' = StartThreads(sms_threads, CompletedSms(tasks[found]))
    /\ UNCHANGED <<now, screen, current_username, update_target, next_uid, edited>>
    /\ UNCHANGED <<ReminderVars, TeacherVars>>
    /\ UNCHANGED <<users_data, TWILIO_AVAILABLE, attachment_files>>

(* check_for_reminders when datetime.now() returns t *)
scan_reminders(t) ==
    /\ current_username # None
    /\ screen # "crashed"
    /\ LET scan == ScanTasks(tasks, reminders_sent, <<>>, t)
           started == StartedSms(scan.fired, get_phone_number(users_data, current_username),
                                 TWILIO_AVAILABLE)
       IN  /\ reminders_sent' = scan.sent
           /\ notify_count' = Bump(notify_count, scan.fired)
           /\ sms_threads' = StartThreads(sms_threads, started)
           /\ last_op' = [Idle("check_for_reminders") EXCEPT
                             !.fired = scan.fired, !.sms = started]
    /\ UNCHANGED <<screen, current_username, tasks, update_target, task_files,
                   next_uid, edited>>
    /\ UNCHANGED <<GamificationVars, TeacherVars>>
    /\ UNCHANGED <<users_data, TWILIO_AVAILABLE, attachment_files>>

(* a scan at an arbitrary moment *)
check_for_reminders ==
    /\ scan_reminders(now)
    /\ UNCHANGED now

(* setup_reminder_timer: the scan that runs 30 s after the previous one *)
reminder_timer_timeout(limit) ==
    /\ now + ReminderInterval <= limit
    /\ now' = now + ReminderInterval
    /\ scan_reminders(now + ReminderInterval)

(* a _send_sms thread whose failure takes back the mark of its reminder *)
send_sms_FailureUnmarks(thread, outcome) ==
    /\ thread \in sms_threads
    /\ sms_threads' = sms_threads \ {thread}
    /\ last_op' = [Idle("_send_sms") EXCEPT !.sms = <<thread>>, !.outcome = outcome]
    /\ reminders_sent' =
           IF outcome = "failed"
           THEN {key \in reminders_sent :
                    \A i \in DOMAIN tasks :
                        tasks[i].uid = thread.uid
                            => key # ReminderKey(tasks[i].name, thread.threshold)}
           ELSE reminders_sent
    /\ UNCHANGED <<now, screen, task_files, next_uid, current_edited_task, notify_count>>
    /\ UNCHANGED <<current_username, tasks, update_target, edited>>
    /\ UNCHANGED GamificationVars
    /\ UNCHANGED <<users_data, TWILIO_AVAILABLE, attachment_files>>

(* _send_sms in its thread: client.messages.create succeeds ("sent") or raises, and the
   except clause prints the failure ("failed"); the thread ends either way.  The thread
   works on its two arguments and on config only, it reads and writes no field of the
   window, so that its steps between start and end commute with every handler *)
send_sms(thread, outcome) ==
    /\ thread \in sms_threads
    /\ sms_threads' = sms_threads \ {thread}
    /\ last_op' = [Idle("_send_sms") EXCEPT !.sms = <<thread>>, !.outcome = outcome]
    /\ UNCHANGED <<now, screen, task_files, next_uid, current_edited_task>>
    /\ UNCHANGED <<current_username, tasks, update_target, edited>>
    /\ UNCHANGED <<GamificationVars, ReminderVars>>
    /\ UNCHANGED <<users_data, TWILIO_AVAILABLE, attachment_files>>

-----------------------------------------------------------------------------
(* TeacherAccessWindow: it works on the students' task files *)

StudentVars == <<current_username, tasks, update_target, edited>>

(* handle_login -> show_main_window_for_role(username, "teacher") *)
login_teacher ==
    /\ screen = "auth"
    /\ screen' = "teacher"
    /\ last_op' = Idle("login_teacher")
    /\ UNCHANGED <<now, task_files, next_uid, current_edited_task>>
    /\ UNCHANGED <<StudentVars, GamificationVars, ReminderVars, OutsideVars>>

SameTask(record, name, due_date) == record.name = name /\ record.due_date = due_date

(* "Edit Task" on a row of the list, which shows the records of the files *)
edit_selected_task(student, row) ==
    /\ screen = "teacher"
    /\ task_files[student].exists
    /\ row \in 1..Len(task_files[student].data)
    /\ LET task_to_edit == from_dict(task_files[student].data[row])
       IN  current_edited_task' = [active |-> TRUE, student |-> student,
                                   name |-> task_to_edit.name,
                                   due_date |-> task_to_edit.due_date]
    /\ last_op' = Idle("edit_selected_task")
    /\ UNCHANGED <<now, screen, task_files, next_uid>>
    /\ UNCHANGED <<StudentVars, GamificationVars, ReminderVars, OutsideVars>>

cancel_edit_mode ==
    /\ screen = "teacher"
    /\ current_edited_task.active
    /\ current_edited_task' = NoEdit
    /\ last_op' = Idle("cancel_edit_mode")
    /\ UNCHANGED <<now, screen, task_files, next_uid>>
    /\ UNCHANGED <<StudentVars, GamificationVars, ReminderVars, OutsideVars>>

(* "Assign Task" / "Update Task" *)
assign_task(dropdown_student, task_name, due_seconds, priority) ==
    /\ screen = "teacher"
    /\ next_uid <= MaxUid
    /\ LET editing_mode == current_edited_task.active
           selected_student == IF editing_mode THEN current_edited_task.student
                               ELSE dropdown_student
           student_tasks == IF task_files[selected_student].exists
                            THEN LoadTasks(task_files[selected_student].data) ELSE <<>>
           matches == {i \in 1..Len(student_tasks) :
                          SameTask(student_tasks[i], current_edited_task.name,
                                   current_edited_task.due_date)}
           first == CHOOSE i \in matches : \A j \in matches : i <= j
           duplicate == \E i \in 1..Len(student_tasks) : student_tasks[i].name = task_name
           written(list) ==
               [task_files EXCEPT ![selected_student] =
                   [exists |-> TRUE, json |-> TRUE, data |-> DumpTasks(list)]]
       IN  IF task_name = "" \/ ~task_files[selected_student].json
           THEN UNCHANGED <<task_files, next_uid, current_edited_task>>
           ELSE IF editing_mode
           THEN IF matches = {}
                THEN UNCHANGED <<task_files, next_uid, current_edited_task>>
                ELSE /\ task_files' = written(
                            [student_tasks EXCEPT ![first] =
                                [@ EXCEPT !.name = task_name,
                                          !.due_date = DueText(due_seconds),
                                          !.priority = priority]])
                     /\ current_edited_task' = NoEdit
                     /\ UNCHANGED next_uid
           ELSE IF duplicate
                THEN UNCHANGED <<task_files, next_uid, current_edited_task>>
                ELSE /\ task_files' = written(
                            Append(student_tasks,
                                   Task(next_uid, task_name, DueText(due_seconds), priority, FALSE)))
                     /\ next_uid' = next_uid + 1
                     /\ current_edited_task' = NoEdit
    /\ last_op' = Idle("assign_task")
    /\ UNCHANGED <<now, screen>>
    /\ UNCHANGED <<StudentVars, GamificationVars, ReminderVars, OutsideVars>>

(* "Mark Complete" on a row, confirmed with Yes *)
mark_task_completed(student, row) ==
    /\ screen = "teacher"
    /\ task_files[student].exists
    /\ row \in 1..Len(task_files[student].data)
    /\ LET tasks_data == task_files[student].data
           task_to_mark == tasks_data[row]
           first == CHOOSE i \in 1..Len(tasks_data) :
                       /\ SameTask(tasks_data[i], task_to_mark.name, task_to_mark.due_date)
                       /\ \A j \in 1..(i - 1) :
                             ~SameTask(tasks_data[j], task_to_mark.name, task_to_mark.due_date)
       IN  task_files' = [task_files EXCEPT ![student].data[first].completed = TRUE]
    /\ last_op' = Idle("mark_task_completed")
    /\ UNCHANGED <<now, screen, next_uid, current_edited_task>>
    /\ UNCHANGED <<StudentVars, GamificationVars, ReminderVars, OutsideVars>>

(* "Delete Task" on a row, confirmed with Yes *)
delete_selected_task(student, row) ==
    /\ screen = "teacher"
    /\ task_files[student].exists
    /\ row \in 1..Len(task_files[student].data)
    /\ LET tasks_data == task_files[student].data
           task_to_delete == tasks_data[row]
           updated_tasks_data ==
               SelectSeq(tasks_data,
                         LAMBDA d : ~SameTask(d, task_to_delete.name, task_to_delete.due_date))
       IN  task_files' = [task_files EXCEPT ![student].data = updated_tasks_data]
    /\ current_edited_task' = NoEdit
    /\ last_op' = Idle("delete_selected_task")
    /\ UNCHANGED <<now, screen, next_uid>>
    /\ UNCHANGED <<StudentVars, GamificationVars, ReminderVars, OutsideVars>>

-----------------------------------------------------------------------------
(* The process and the clock *)

InMemoryInit ==
    /\ screen = "auth"
    /\ current_username = None
    /\ tasks = <<>>
    /\ user_points = 0
    /\ user_streak_data = DefaultStreak
    /\ reminders_sent = {}
    /\ update_target = NoTarget
    /\ current_edited_task = NoEdit
    /\ last_op = Idle("init")
    /\ notify_count = NoNotifications
    /\ edited = {}
    /\ users_data = [u \in Students |-> ""]
    /\ TWILIO_AVAILABLE = TRUE
    /\ sms_threads = {}
    /\ attachment_files = {}

(* the application is closed and started again: the files stay *)
Restart ==
    /\ screen # "auth"
    /\ screen' = "auth"
    /\ current_username' = None
    /\ tasks' = <<>>
    /\ user_points' = 0
    /\ user_streak_data' = DefaultStreak
    /\ reminders_sent' = {}
    /\ update_target' = NoTarget
    /\ current_edited_task' = NoEdit
    /\ last_op' = Idle("init")
    /\ notify_count' = NoNotifications
    /\ edited' = {}
    /\ sms_threads' = {}
    /\ UNCHANGED <<now, task_files, gamification_files, next_uid, award_count, completion_days>>
    /\ UNCHANGED <<users_data, TWILIO_AVAILABLE, attachment_files>>

Tick(seconds, limit) ==
    /\ now + seconds <= limit
    /\ now' = now + seconds
    /\ last_op' = Idle("tick")
    /\ UNCHANGED <<screen, task_files, next_uid, current_edited_task>>
    /\ UNCHANGED <<StudentVars, GamificationVars, ReminderVars, OutsideVars>>

-----------------------------------------------------------------------------
(* The main specification: the student window, from 2025-01-31 23:40 *)

StartNow == 30 * SecondsPerDay + 23 * OneHour + 4 * TenMinutes
NameInputs == {"", "essay", "lab"}
DueInputs == {StartNow + 2 * TenMinutes}
PriorityInputs == {"Medium"}
LoginInputs == {"alice"}

Init ==
    /\ InMemoryInit
    /\ now = StartNow
    /\ task_files = [u \in Students |-> NoFile]
    /\ gamification_files = [u \in Students |-> NoGamification]
    /\ next_uid = 1
    /\ award_count = NoAwards
    /\ completion_days = [u \in Students |-> {}]

UneditedNext ==
    \/ \E username \in LoginInputs : set_current_user(username)
    \/ display_tasks
    \/ \E n \in NameInputs, d \in DueInputs, p \in PriorityInputs : add_task(n, d, p)
    \/ \E row \in DOMAIN tasks : delete_task(row)
    \/ \E row \in DOMAIN tasks : mark_task_complete(row)
    \/ check_for_reminders
    \/ Tick(TenMinutes, StartNow + MaxTicks * TenMinutes)

Next ==
    \/ UneditedNext
    \/ logout
    \/ \E row \in DOMAIN tasks : edit_task(row)
    \/ \E n \in NameInputs, d \in DueInputs, p \in PriorityInputs : update_task(n, d, p)

Spec == Init /\ [][Next]_vars

(* One user session in which no task is edited *)
SpecUnedited == Init /\ [][UneditedNext]_vars

(* The student window, the teacher window and restarts of the application *)

TeacherNext ==
    \/ login_teacher
    \/ \E u \in LoginInputs : \E row \in DOMAIN task_files[u].data : edit_selected_task(u, row)
    \/ cancel_edit_mode
    \/ \E u \in LoginInputs, n \in NameInputs, d \in DueInputs, p \in PriorityInputs :
          assign_task(u, n, d, p)
    \/ \E u \in LoginInputs : \E row \in DOMAIN task_files[u].data : mark_task_completed(u, row)
    \/ \E u \in LoginInputs : \E row \in DOMAIN task_files[u].data : delete_selected_task(u, row)
    \/ Restart

SchoolNext ==
    \/ \E username \in LoginInputs : set_current_user(username)
    \/ logout
    \/ \E n \in NameInputs, d \in DueInputs, p \in PriorityInputs : add_task(n, d, p)
    \/ \E row \in DOMAIN tasks : edit_task(row)
    \/ \E n \in NameInputs, d \in DueInputs, p \in PriorityInputs : update_task(n, d, p)
    \/ \E row \in DOMAIN tasks : delete_task(row)
    \/ \E row \in DOMAIN tasks : mark_task_complete(row)
    \/ TeacherNext

SpecSchool == Init /\ [][SchoolNext]_vars

-----------------------------------------------------------------------------
(* The sort of display_tasks on every small collection that a task file can hold *)

SortDues == {DueText(StartNow - TenMinutes), DueText(StartNow + TenMinutes), BadDueText}

SortRecords ==
    {Task(0, name, due_date, priority, completed) :
        name \in {"essay", "lab"}, due_date \in SortDues,
        priority \in {"High", "Low"}, completed \in BOOLEAN}

SortCollections ==
    UNION {{[i \in 1..n |-> [c[i] EXCEPT !.uid = i]] : c \in [1..n -> SortRecords]} :
              n \in 0..MaxSortLen}

InitSort ==
    /\ InMemoryInit
    /\ now = StartNow
    /\ \E c \in SortCollections :
          /\ task_files = [u \in Students |->
                              IF u = "alice"
                              THEN [exists |-> TRUE, json |-> TRUE, data |-> DumpTasks(c)]
                              ELSE NoFile]
          /\ next_uid = Len(c) + 1
    /\ gamification_files = [u \in Students |-> NoGamification]
    /\ award_count = NoAwards
    /\ completion_days = [u \in Students |-> {}]

NextSort ==
    \/ set_current_user("alice")
    \/ display_tasks
    \/ Tick(TenMinutes, StartNow + TenMinutes)

SpecSort == InitSort /\ [][NextSort]_vars

-----------------------------------------------------------------------------
(* A student who is logged in with a given collection on file *)

LoggedInWindow(username, list, points, streak) ==
    /\ screen = "student"
    /\ current_username = username
    /\ tasks = SortedTasks(list, now)
    /\ task_files = [u \in Students |->
                        IF u = username
                        THEN [exists |-> TRUE, json |-> TRUE, data |-> DumpTasks(list)]
                        ELSE NoFile]
    /\ next_uid = Len(list) + 1
    /\ user_points = points
    /\ user_streak_data = streak
    /\ gamification_files = [u \in Students |->
                                IF u = username /\ streak # DefaultStreak
                                THEN [exists |-> TRUE, points |-> points, streak |-> streak]
                                ELSE NoGamification]
    /\ reminders_sent = {}
    /\ update_target = NoTarget
    /\ current_edited_task = NoEdit
    /\ last_op = Idle("set_current_user")
    /\ notify_count = NoNotifications
    /\ edited = {}
    /\ award_count = NoAwards
    /\ completion_days = [u \in Students |-> {}]

(* ... with no phone number in users.json, twilio installed and no attachment stored *)
LoggedIn(username, list, points, streak) ==
    /\ LoggedInWindow(username, list, points, streak)
    /\ users_data = [u \in Students |-> ""]
    /\ TWILIO_AVAILABLE = TRUE
    /\ sms_threads = {}
    /\ attachment_files = {}

(* Completions over several days, from 2025-01-30 12:00 *)

StreakStart == 29 * SecondsPerDay + 12 * OneHour
StreakTasks(n) ==
    [i \in 1..n |-> Task(i, AllNames[i + 1], DueText(StreakStart), "Medium", FALSE)]

InitStreak ==
    /\ now = StreakStart
    /\ LoggedIn("alice", StreakTasks(Min(MaxStreakTasks, Len(AllNames) - 1)), 0, DefaultStreak)

NextStreak ==
    \/ \E row \in DOMAIN tasks : mark_task_complete(row)
    \/ Tick(12 * OneHour, StreakStart + MaxDay * SecondsPerDay)

SpecStreak == InitStreak /\ [][NextStreak]_vars

(* One completion from every small persisted streak state *)

StreakDays == (StreakStart \div SecondsPerDay)..(StreakStart \div SecondsPerDay + MaxDay)

InitStreakStep ==
    /\ \E day \in StreakDays : now = day * SecondsPerDay + 12 * OneHour
    /\ \E current \in 0..MaxStreak :
       \E last \in {NoDate} \cup {strftime_date(day) : day \in StreakDays} :
          LoggedIn("alice", StreakTasks(1), CompletionPoints * current,
                   [current_streak |-> current, last_completed_date |-> last])

NextStreakStep == \E row \in DOMAIN tasks : mark_task_complete(row)

SpecStreakStep == InitStreakStep /\ [][NextStreakStep]_vars

-----------------------------------------------------------------------------
(* The reminder timer alone: one task, scanned every 30 s until after it is due *)

ScanDue == StartNow + 2 * OneHour

InitScan ==
    /\ now \in (ScanDue - OneHour - ReminderInterval)
                ..(ScanDue - TenMinutes - ReminderInterval - 1)
    /\ LoggedIn("alice", <<Task(1, "essay", DueText(ScanDue), "High", FALSE)>>,
                0, DefaultStreak)

NextScan == reminder_timer_timeout(ScanDue + MaxScansAfterDue * ReminderInterval)

SpecScan == InitScan /\ [][NextScan]_vars

-----------------------------------------------------------------------------
(* Properties *)

Count(uid, threshold) == notify_count[<<uid, threshold>>]
TimeUntilDue(task) == strptime(task.due_date) - now
Scannable(task) == ~task.completed /\ task.due_date.valid

(* C1: in a session where no task is edited and the user is not switched, a scan never
   emits a threshold of a task a second time, and the key of an emitted threshold stays
   in reminders_sent *)
C1_EachThresholdAtMostOnce ==
    /\ \A uid \in Uids \ edited : \A th \in Thresholds : Count(uid, th) <= 1
    /\ \A i \in DOMAIN tasks : \A th \in Thresholds :
          (tasks[i].uid \notin edited /\ Count(tasks[i].uid, th) = 1)
              => ReminderKey(tasks[i].name, th) \in reminders_sent

(* a scan has just emitted nothing for a task that is still inside its 1-hour window
   and got its 1-hour reminder from an earlier scan *)
C1_Witness ==
    /\ last_op.op = "check_for_reminders"
    /\ last_op.fired = <<>>
    /\ \E i \in DOMAIN tasks :
          /\ Scannable(tasks[i])
          /\ 0 < TimeUntilDue(tasks[i]) /\ TimeUntilDue(tasks[i]) <= OneHour
          /\ Count(tasks[i].uid, "_1hr") = 1

C2_Step ==
    last_op'.op = "mark_task_complete" =>
        LET uid == last_op'.target
            before == tasks[IndexOfUid(tasks, uid)]
            after == tasks'[IndexOfUid(tasks', uid)]
        IN  /\ before.completed =>
                  /\ last_op'.awarded = 0
                  /\ user_points' = user_points
                  /\ user_streak_data' = user_streak_data
                  /\ tasks' = tasks
            /\ (~before.completed /\ after.completed) =>
                  /\ last_op'.awarded = CompletionPoints
                  /\ user_points' = user_points + CompletionPoints
            /\ \A u \in Uids : award_count'[u] <= 1

(* C2: mark_task_complete on a row whose task is incomplete and becomes complete awards
   exactly 10 points; on a row whose task is already completed it awards nothing and
   leaves points, streak and task list as they are; no task ever awards points twice *)
C2_PointsOncePerCompletion == [][C2_Step]_vars

NoDuplicateName(list) ==
    \A i, j \in DOMAIN list : i # j => list[i].name # list[j].name

(* C3: no two tasks of one user have the same name, neither in the list of the student
   window nor in any task file *)
C3_UniqueNames ==
    /\ NoDuplicateName(tasks)
    /\ \A u \in Students : NoDuplicateName(task_files[u].data)

Displayed == last_op.op \in {"display_tasks", "set_current_user"}
OverdueIncomplete(task) == Scannable(task) /\ strptime(task.due_date) < now
UpcomingIncomplete(task) == Scannable(task) /\ strptime(task.due_date) >= now

C5_IncompleteBeforeCompleted ==
    Displayed =>
        \A i, j \in DOMAIN tasks :
            (i < j) => ~(tasks[i].completed /\ ~tasks[j].completed)

RECURSIVE RunLength(_, _)
RunLength(days, day) ==
    IF day \in days THEN 1 + RunLength(days, day - 1) ELSE 0

LatestDay(days) == CHOOSE d \in days : \A e \in days : e <= d

(* C6: from the default streak state, current_streak is the number of consecutive days
   with a completion that ends on the day of the latest completion *)
C6_StreakIsRunOfDays ==
    LET days == completion_days["alice"]
    IN  days # {} => user_streak_data.current_streak = RunLength(days, LatestDay(days))

(* completions on three consecutive days *)
C6_Witness ==
    /\ last_op.op = "mark_task_complete"
    /\ user_streak_data.current_streak = 3
    /\ Cardinality(completion_days["alice"]) = 3

C7_Step ==
    (last_op'.op = "mark_task_complete" /\ last_op'.awarded > 0) =>
        LET today == DateOf(now)
            last == user_streak_data.last_completed_date
            streak == user_streak_data.current_streak
            expected ==
                IF last = NoDate THEN 1
                ELSE IF strftime_date(today) = last THEN streak
                ELSE IF today > 0 /\ strftime_date(today - 1) = last THEN streak + 1
                ELSE 1
        IN  /\ user_streak_data'.current_streak = expected
            /\ user_streak_data'.last_completed_date = strftime_date(today)

(* C7: one update_streak: 1 from a null date, unchanged on the same day, plus one on the
   day after, 1 otherwise (also when today is earlier), and the date becomes today *)
C7_StreakStep == [][C7_Step]_vars

(* a completion on the day after the last one has raised the largest persisted streak *)
C7_Witness ==
    /\ last_op.op = "mark_task_complete"
    /\ last_op.awarded > 0
    /\ user_streak_data.current_streak = MaxStreak + 1

C8_Step ==
    last_op'.op = "check_for_reminders" =>
        \A i \in DOMAIN tasks :
            ( /\ Scannable(tasks[i])
              /\ 0 < TimeUntilDue(tasks[i]) /\ TimeUntilDue(tasks[i]) <= TenMinutes
              /\ ReminderKey(tasks[i].name, "_10min") \notin reminders_sent )
            => /\ ReminderKey(tasks[i].name, "_10min") \in reminders_sent'
               /\ \E k \in DOMAIN last_op'.fired :
                     last_op'.fired[k] = [uid |-> tasks[i].uid, threshold |-> "_10min"]

(* C8: a scan that finds an incomplete task within ten minutes of its due time, its
   10-minute key not yet sent, emits the 10-minute reminder and marks it sent, whatever
   the state of the 1-hour reminder *)
C8_TenMinuteIndependent == [][C8_Step]_vars

(* C9: within a user session no task gets the same threshold twice, renamed or not, and
   while the names of the list are distinct a key in reminders_sent holds back only a
   task that got the reminder itself, never one that took over the name of another *)
C9_SentStateFollowsIdentity ==
    /\ \A uid \in Uids : \A th \in Thresholds : Count(uid, th) <= 1
    /\ NoDuplicateName(tasks) =>
          \A i \in DOMAIN tasks : \A th \in Thresholds :
              ReminderKey(tasks[i].name, th) \in reminders_sent
                  => Count(tasks[i].uid, th) >= 1

(* C10: a task scanned every 30 s from inside its 1-hour window gets one reminder per
   scan at most, the 1-hour one at the first scan, the 10-minute one only after it, the
   overdue one only after both, each once, and all three once a scan passed the due time *)
C10_OneHourTenMinutesOverdue ==
    /\ \A th \in Thresholds : Count(1, th) <= 1
    /\ Len(last_op.fired) <= 1
    /\ last_op.op = "check_for_reminders" => Count(1, "_1hr") = 1
    /\ Count(1, "_10min") = 1 => Count(1, "_1hr") = 1
    /\ Count(1, "_overdue") = 1 => Count(1, "_10min") = 1
    /\ (last_op.op = "check_for_reminders" /\ now > ScanDue)
          => \A th \in Thresholds : Count(1, th) = 1

(* the scan after the due time has just emitted the overdue reminder, the third one *)
C10_Witness ==
    /\ last_op.op = "check_for_reminders"
    /\ last_op.fired = <<[uid |-> 1, threshold |-> "_overdue"]>>
    /\ \A th \in Thresholds : Count(1, th) = 1

-----------------------------------------------------------------------------
(* Several students use the application one after the other in one run *)

SwitchNext ==
    \/ \E username \in Students : set_current_user(username)
    \/ logout
    \/ \E n \in NameInputs, d \in DueInputs, p \in PriorityInputs : add_task(n, d, p)
    \/ \E row \in DOMAIN tasks : mark_task_complete(row)

SpecSwitch == Init /\ [][SwitchNext]_vars

(* C11: a user without a gamification file who has just become the current user has 0
   points and the default streak state, whoever used the window before *)
C11_DefaultsForNewUser ==
    (last_op.op = "set_current_user" /\ ~gamification_files[current_username].exists)
        => /\ user_points = 0
           /\ user_streak_data = DefaultStreak

-----------------------------------------------------------------------------
(* C12: a scan emits nothing for a task that is completed: every notification of the
   scan that has just run belongs to a task of the list that is incomplete *)
C12_NoReminderAfterCompletion ==
    last_op.op = "check_for_reminders" =>
        \A k \in DOMAIN last_op.fired :
            LET i == IndexOfUid(tasks, last_op.fired[k].uid)
            IN  i # 0 /\ ~tasks[i].completed

(* a scan has just passed over a completed task that is inside its 1-hour window and
   never got its 1-hour reminder *)
C12_Witness ==
    /\ last_op.op = "check_for_reminders"
    /\ \E i \in DOMAIN tasks :
          /\ tasks[i].completed
          /\ tasks[i].due_date.valid
          /\ 0 < TimeUntilDue(tasks[i]) /\ TimeUntilDue(tasks[i]) <= OneHour
          /\ ReminderKey(tasks[i].name, "_1hr") \notin reminders_sent
          /\ Count(tasks[i].uid, "_1hr") = 0

-----------------------------------------------------------------------------
WindowHolds(task, threshold) ==
    CASE threshold = "_1hr" -> 0 < TimeUntilDue(task) /\ TimeUntilDue(task) <= OneHour
      [] threshold = "_10min" -> 0 < TimeUntilDue(task) /\ TimeUntilDue(task) <= TenMinutes
      [] threshold = "_overdue" -> TimeUntilDue(task) < 0

C13_Step ==
    /\ last_op'.op = "set_current_user" => reminders_sent' = {}
    /\ (last_op.op = "set_current_user" /\ last_op'.op = "check_for_reminders"
        /\ NoDuplicateName(tasks)) =>
          \A i \in DOMAIN tasks : \A th \in Thresholds :
              (Scannable(tasks[i]) /\ WindowHolds(tasks[i], th)) =>
                  \E k \in DOMAIN last_op'.fired :
                      last_op'.fired[k] = [uid |-> tasks[i].uid, threshold |-> th]

(* C13: set_current_user leaves reminders_sent empty, and the scan that follows it emits
   every threshold of every incomplete task whose window holds at that scan *)
C13_SwitchResetsSentState == [][C13_Step]_vars

-----------------------------------------------------------------------------
(* Task files written by earlier versions, by hand or by a process that was killed *)

FileDue == DueText(StartNow + 2 * TenMinutes)

FullRecord ==
    [uid |-> 0, name |-> "essay", due_date |-> FileDue, description |-> "notes",
     next_step |-> "draft", priority |-> "High", completed |-> TRUE, reminded |->
     TRUE, attachments |-> <<"a.pdf">>]

LegacyRecords ==
    {[uid |-> 0, name |-> "lab", due_date |-> FileDue, next_step |-> "draft",
     priority |-> "High", completed |-> TRUE, reminded |-> TRUE, attachments |->
     <<"a.pdf">>],
     [uid |-> 0, name |-> "lab", due_date |-> FileDue, description |-> "notes",
     priority |-> "High", completed |-> TRUE, reminded |-> TRUE, attachments |->
     <<"a.pdf">>],
     [uid |-> 0, name |-> "lab", due_date |-> FileDue, description |-> "notes",
     next_step |-> "draft", completed |-> TRUE, reminded |-> TRUE, attachments |->
     <<"a.pdf">>],
     [uid |-> 0, name |-> "lab", due_date |-> FileDue, description |-> "notes",
     next_step |-> "draft", priority |-> "High", reminded |-> TRUE, attachments |->
     <<"a.pdf">>],
     [uid |-> 0, name |-> "lab", due_date |-> FileDue, description |-> "notes",
     next_step |-> "draft", priority |-> "High", completed |-> TRUE, attachments |->
     <<"a.pdf">>],
     [uid |-> 0, name |-> "lab", due_date |-> FileDue, description |-> "notes",
     next_step |-> "draft", priority |-> "High", completed |-> TRUE, reminded |->
     TRUE],
     [uid |-> 0, name |-> "lab", due_date |-> FileDue]}

MalformedRecords ==
    {[uid |-> 0, due_date |-> FileDue, description |-> "notes", next_step |->
     "draft", priority |-> "High", completed |-> TRUE, reminded |-> TRUE, attachments
     |-> <<"a.pdf">>],
     [uid |-> 0, name |-> "essay"]}

FileRecords == {FullRecord} \cup LegacyRecords \cup MalformedRecords

FileCollections ==
    UNION {{[i \in 1..n |-> [c[i] EXCEPT !.uid = i]] : c \in [1..n -> FileRecords]} :
              n \in 0..MaxFileLen}

CorruptFile == [exists |-> TRUE, json |-> FALSE, data |-> <<>>]

FileInputs ==
    {CorruptFile} \cup {[exists |-> TRUE, json |-> TRUE, data |-> c] : c \in FileCollections}

InitFiles ==
    /\ InMemoryInit
    /\ now = StartNow
    /\ \E file \in FileInputs :
          /\ task_files = [u \in Students |-> IF u = "alice" THEN file ELSE NoFile]
          /\ next_uid = Len(file.data) + 1
    /\ gamification_files = [u \in Students |-> NoGamification]
    /\ award_count = NoAwards
    /\ completion_days = [u \in Students |-> {}]

NextFiles ==
    \/ set_current_user("alice")
    \/ \E n \in {"quiz"}, d \in DueInputs, p \in PriorityInputs : add_task(n, d, p)
    \/ \E n \in {"quiz"}, d \in DueInputs, p \in PriorityInputs :
          \E written \in {"nothing", "partial", "all"} : add_task_killed(n, d, p, written)
    \/ \E row \in DOMAIN tasks : mark_task_complete(row)
    \/ \E row \in DOMAIN tasks : delete_task(row)
    \/ Restart

SpecFiles == InitFiles /\ [][NextFiles]_vars

-----------------------------------------------------------------------------
OptionalKeys == {"description", "next_step", "priority", "completed", "reminded", "attachments"}

DefaultOf(key) ==
    CASE key \in {"description", "next_step"} -> ""
      [] key = "priority" -> "Medium"
      [] key \in {"completed", "reminded"} -> FALSE
      [] key = "attachments" -> <<>>

ReadableFile(file) == file.exists /\ file.json

(* C14: saving the list in memory and loading it again gives the same list; while the
   student window is open a load of the file gives the list in memory; and a task that
   was just loaded has the values of its record, with the defaults "", "", "Medium",
   FALSE, FALSE, <<>> for the optional fields its record lacks *)
C14_SaveLoadRoundTrip ==
    /\ LoadTasks(DumpTasks(tasks)) = tasks
    /\ (screen = "student" /\ ReadableFile(task_files[current_username]))
          => tasks = load_tasks(task_files, current_username, now)
    /\ (last_op.op = "set_current_user" /\ ReadableFile(task_files[current_username]))
          => \A i \in DOMAIN task_files[current_username].data :
                LET d == task_files[current_username].data[i]
                    task == tasks[IndexOfUid(tasks, d.uid)]
                IN  /\ task.name = d.name
                    /\ task.due_date = d.due_date
                    /\ \A key \in OptionalKeys :
                          task[key] = IF key \in DOMAIN d THEN d[key] ELSE DefaultOf(key)

(* a record without any optional field was loaded and saved again by add_task: the file
   now holds it with every field, the optional ones at their defaults *)
C14_Witness ==
    /\ last_op.op = "add_task"
    /\ \E i \in DOMAIN task_files["alice"].data :
          LET d == task_files["alice"].data[i]
          IN  /\ d.name = "lab"
              /\ OptionalKeys \subseteq DOMAIN d
              /\ \A key \in OptionalKeys : d[key] = DefaultOf(key)

(* C15: load_tasks never raises, and a file that is not valid JSON leaves the list empty *)
C15_LoadFailsSoft ==
    /\ last_op.op # "KeyError"
    /\ (last_op.op = "set_current_user" /\ task_files[current_username].exists
        /\ ~task_files[current_username].json) => tasks = <<>>

C16_Step ==
    last_op'.op = "add_task_killed" =>
        \/ task_files'[current_username] = task_files[current_username]
        \/ task_files'[current_username] =
              [exists |-> TRUE, json |-> TRUE, data |-> DumpTasks(tasks')]

(* C16: a save that is interrupted leaves the file as it was or holding the complete new
   collection *)
C16_SaveIsAtomic == [][C16_Step]_vars


-----------------------------------------------------------------------------
(* The refresh timer and the reminder scan on the collections of SpecSort, until after
   the later due time *)

NextRefresh ==
    \/ set_current_user("alice")
    \/ display_tasks
    \/ check_for_reminders
    \/ Tick(TenMinutes, StartNow + 2 * TenMinutes)

SpecRefresh == InitSort /\ [][NextRefresh]_vars

InvalidIncomplete(task) == ~task.completed /\ ~task.due_date.valid

(* C17: a task with an unparsable due date never makes the sort of display_tasks or the
   reminder scan raise; an incomplete one stands, in the order display_tasks leaves, after
   every incomplete task with a parseable due date, and no scan emits a reminder for it *)
C17_InvalidDateNeverRaises ==
    /\ screen # "crashed"
    /\ last_op.op # "ValueError"
    /\ Displayed =>
          \A i, j \in DOMAIN tasks :
              (i < j) => ~(InvalidIncomplete(tasks[i]) /\ Scannable(tasks[j]))
    /\ \A i \in DOMAIN tasks :
          ~tasks[i].due_date.valid =>
              /\ \A th \in Thresholds : notify_count[<<tasks[i].uid, th>>] = 0
              /\ \A k \in DOMAIN last_op.fired : last_op.fired[k].uid # tasks[i].uid
              /\ \A th \in Thresholds : ReminderKey(tasks[i].name, th) \in reminders_sent =>
                    \E j \in DOMAIN tasks :
                        tasks[j].name = tasks[i].name /\ tasks[j].due_date.valid

(* the sort has moved an incomplete task with an unparsable date behind an incomplete
   parseable one that the file lists after it, and a scan has then fired for the latter *)
C17_Witness ==
    /\ last_op.op = "check_for_reminders"
    /\ last_op.fired # <<>>
    /\ \E i, j \in DOMAIN tasks :
          /\ i < j
          /\ Scannable(tasks[i]) /\ InvalidIncomplete(tasks[j])
          /\ tasks[i].uid > tasks[j].uid
          /\ tasks[i].name = tasks[j].name


-----------------------------------------------------------------------------
(* C18: in the order display_tasks leaves, two overdue incomplete tasks stand by due date
   ascending, two incomplete tasks due at or after now by priority rank and then by due
   date ascending, two incomplete tasks with an unparsable date by name, and two completed
   tasks by name *)
C18_WithinGroupOrder ==
    Displayed =>
        \A i, j \in DOMAIN tasks :
            (i < j) =>
                /\ (OverdueIncomplete(tasks[i]) /\ OverdueIncomplete(tasks[j]))
                      => strptime(tasks[i].due_date) <= strptime(tasks[j].due_date)
                /\ (UpcomingIncomplete(tasks[i]) /\ UpcomingIncomplete(tasks[j]))
                      => \/ priority_value(tasks[i].priority) < priority_value(tasks[j].priority)
                         \/ /\ priority_value(tasks[i].priority) = priority_value(tasks[j].priority)
                            /\ strptime(tasks[i].due_date) <= strptime(tasks[j].due_date)
                /\ (InvalidIncomplete(tasks[i]) /\ InvalidIncomplete(tasks[j]))
                      => NameRank(tasks[i].name) <= NameRank(tasks[j].name)
                /\ (tasks[i].completed /\ tasks[j].completed)
                      => NameRank(tasks[i].name) <= NameRank(tasks[j].name)


-----------------------------------------------------------------------------
(* C19: a display refresh has no side effect on the stored tasks: a step of display_tasks
   leaves the user's ordered collection, the order of its records included, and the task
   files as they were *)
C19_Step ==
    (last_op'.op = "display_tasks") => (tasks' = tasks /\ task_files' = task_files)

C19_RefreshLeavesStoreUnchanged == [][C19_Step]_vars


-----------------------------------------------------------------------------
(* C20: the sort of display_tasks is deterministic and idempotent: sorting a collection
   that the sort has left, with the same now, gives the same order again, also when
   tasks have equal sort keys; this holds for the sorted file content and for the order
   that display_tasks has just left *)
C20_SortIsIdempotent ==
    /\ LET list == LoadTasks(task_files["alice"].data)
           once == SortedTasks(list, now)
       IN  SortedTasks(once, now) = once
    /\ Displayed => SortedTasks(tasks, now) = tasks

(* display_tasks has sorted a collection in which two different tasks have one sort key *)
C20_Witness ==
    /\ last_op.op = "display_tasks"
    /\ \E i, j \in DOMAIN tasks :
          /\ i < j
          /\ tasks[i].uid # tasks[j].uid
          /\ sort_key(tasks[i], now) = sort_key(tasks[j], now)


-----------------------------------------------------------------------------
(* The refresh timer on small collections whose due times lie one refresh and one day
   and one refresh ahead *)

StatusDues == {DueText(StartNow + RefreshInterval),
               DueText(StartNow + SecondsPerDay + RefreshInterval),
               BadDueText}

StatusRecords ==
    {Task(0, "essay", due_date, "Medium", completed) :
        due_date \in StatusDues, completed \in BOOLEAN}

StatusCollections ==
    UNION {{[i \in 1..n |-> [c[i] EXCEPT !.uid = i]] : c \in [1..n -> StatusRecords]} :
              n \in 1..MaxStatusLen}

InitStatus ==
    /\ now = StartNow
    /\ \E c \in StatusCollections : LoggedIn("alice", c, 0, DefaultStreak)

NextStatus ==
    \/ display_tasks
    \/ Tick(RefreshInterval, StartNow + MaxRefreshes * RefreshInterval)

SpecStatus == InitStatus /\ [][NextStatus]_vars

ShownFor(item) == CHOOSE i \in DOMAIN tasks : tasks[i].uid = item.uid

(* C21: the status display_tasks shows for an incomplete task with a parseable due date
   is the due-soon status exactly when 0 <= due - now <= 24 hours, the overdue status
   exactly when due - now < 0, and no status otherwise *)
C21_DisplayStatusFollowsClassification ==
    (last_op.op = "display_tasks") =>
        \A k \in DOMAIN last_op.items :
            LET item == last_op.items[k]
                task == tasks[ShownFor(item)]
            IN  Scannable(task) =>
                    /\ (item.time_status = "left")
                          <=> (0 <= TimeUntilDue(task) /\ TimeUntilDue(task) <= SecondsPerDay)
                    /\ (item.time_status = "OVERDUE!") <=> (TimeUntilDue(task) < 0)
                    /\ (item.time_status = "")
                          <=> (TimeUntilDue(task) > SecondsPerDay)


-----------------------------------------------------------------------------
(* Scans at arbitrary moments from two hours before the due time until after it, while
   tasks are being completed *)

WindowCollections ==
    {<<Task(1, "essay", DueText(ScanDue), "High", FALSE)>>}
    \cup {<<Task(1, "essay", DueText(ScanDue), "High", FALSE),
            Task(2, "lab", due_date, "High", completed)>> :
             due_date \in {DueText(ScanDue), BadDueText}, completed \in BOOLEAN}

InitWindows ==
    /\ now = StartNow
    /\ \E c \in WindowCollections : LoggedIn("alice", c, 0, DefaultStreak)

NextWindows ==
    \/ check_for_reminders
    \/ \E row \in DOMAIN tasks : mark_task_complete(row)
    \/ Tick(TenMinutes, ScanDue + MaxScansAfterDue * TenMinutes)

SpecWindows == InitWindows /\ [][NextWindows]_vars

FiredFor(op, task) ==
    {op.fired[k].threshold : k \in {n \in DOMAIN op.fired : op.fired[n].uid = task.uid}}

(* C22: a scan emits a reminder of a threshold only for an incomplete task for which the
   window of that threshold holds at the scan; a scan 30 minutes before the due time
   emits the 1-hour reminder when it is unsent and no other, and a scan at the due time
   or more than one hour before it emits nothing for the task *)
C22_Step ==
    (last_op'.op = "check_for_reminders") =>
        \A i \in DOMAIN tasks' :
            LET task == tasks'[i]
                fired == FiredFor(last_op', task)
                until == strptime(task.due_date) - now'
            IN  /\ fired # {} => Scannable(task)
                /\ "_1hr" \in fired => (0 < until /\ until <= OneHour)
                /\ "_10min" \in fired => (0 < until /\ until <= TenMinutes)
                /\ "_overdue" \in fired => until < 0
                /\ (Scannable(task) /\ until = 3 * TenMinutes) =>
                      /\ fired \subseteq {"_1hr"}
                      /\ ReminderKey(task.name, "_1hr") \notin reminders_sent
                            => fired = {"_1hr"}
                /\ (Scannable(task) /\ (until = 0 \/ until > OneHour)) => fired = {}

C22_EmittedOnlyInWindow == [][C22_Step]_vars

(* scans have fired at 30 minutes before the due time and after it, and the scan that
   ran last, at the due time, has fired nothing *)
C22_Witness ==
    /\ last_op.op = "check_for_reminders"
    /\ last_op.fired = <<>>
    /\ \E i \in DOMAIN tasks :
          /\ Scannable(tasks[i])
          /\ TimeUntilDue(tasks[i]) = 0
          /\ Count(tasks[i].uid, "_1hr") = 1
          /\ Count(tasks[i].uid, "_10min") = 1


-----------------------------------------------------------------------------
(* The reminder scan and its SMS threads, for every phone number users.json can hold *)

PhoneNumbers == {"", TWILIO_PHONE_NUMBER, "+15550100"}

DeliveryCollections ==
    {<<Task(1, "essay", DueText(ScanDue), "High", FALSE)>>,
     <<Task(1, "essay", DueText(ScanDue), "High", FALSE),
       Task(2, "lab", DueText(ScanDue), "High", FALSE)>>}

InitDelivery ==
    /\ now = ScanDue - 2 * TenMinutes
    /\ \E c \in DeliveryCollections : LoggedInWindow("alice", c, 0, DefaultStreak)
    /\ users_data \in [Students -> PhoneNumbers]
    /\ users_data["bob"] = ""
    /\ TWILIO_AVAILABLE \in BOOLEAN
    /\ sms_threads = {}
    /\ attachment_files = {}

NextDelivery ==
    \/ check_for_reminders
    \/ \E thread \in sms_threads, outcome \in {"sent", "failed"} : send_sms(thread, outcome)
    \/ Tick(TenMinutes, ScanDue + MaxScansAfterDue * TenMinutes)

SpecDelivery == InitDelivery /\ [][NextDelivery]_vars

CurrentPhone == users_data[current_username]

(* C23: every reminder a scan emits is notified locally, and the scan starts an SMS
   delivery only for a reminder it emits and only when the current user's phone number
   is not empty and differs from the sender number *)
C23_Step ==
    (last_op'.op = "check_for_reminders") =>
        /\ \A k \in DOMAIN last_op'.fired :
              notify_count'[<<last_op'.fired[k].uid, last_op'.fired[k].threshold>>] > 0
        /\ \A k \in DOMAIN last_op'.sms :
              /\ CurrentPhone # "" /\ CurrentPhone # TWILIO_PHONE_NUMBER
              /\ last_op'.sms[k].to = CurrentPhone
              /\ \E n \in DOMAIN last_op'.fired :
                    /\ last_op'.fired[n].uid = last_op'.sms[k].uid
                    /\ last_op'.fired[n].threshold = last_op'.sms[k].threshold
        /\ (CurrentPhone = "" \/ CurrentPhone = TWILIO_PHONE_NUMBER) =>
              (last_op'.sms = <<>> /\ sms_threads' = sms_threads)
        /\ sms_threads' \ sms_threads \subseteq {last_op'.sms[k] : k \in DOMAIN last_op'.sms}

C23_LocalAlwaysRemoteOnlyWithPhone == [][C23_Step]_vars

(* a scan has emitted a reminder without a delivery because the phone number is the
   sender number *)
C23_Witness ==
    /\ last_op.op = "check_for_reminders"
    /\ last_op.fired # <<>>
    /\ last_op.sms = <<>>
    /\ TWILIO_AVAILABLE
    /\ CurrentPhone = TWILIO_PHONE_NUMBER


-----------------------------------------------------------------------------
(* C24: a remote delivery that fails changes nothing but the set of running threads: the
   tasks, the sent marks, the notifications emitted, the files and the window stay as
   they are; and the scan that started the delivery has notified its reminder locally,
   marked it sent, and started the deliveries of the other reminders it emitted *)
C24_Step ==
    /\ (last_op'.op = "_send_sms" /\ last_op'.outcome = "failed") =>
          /\ UNCHANGED <<tasks, reminders_sent, notify_count, task_files, gamification_files,
                         screen, current_username, user_points, user_streak_data>>
          /\ sms_threads' = sms_threads \ {last_op'.sms[1]}
    /\ (last_op'.op = "check_for_reminders" /\ last_op'.sms # <<>>) =>
          /\ Len(last_op'.sms) = Len(last_op'.fired)
          /\ \A k \in DOMAIN last_op'.sms :
                /\ notify_count'[<<last_op'.sms[k].uid, last_op'.sms[k].threshold>>] > 0
                /\ \E i \in DOMAIN tasks :
                      /\ tasks[i].uid = last_op'.sms[k].uid
                      /\ ReminderKey(tasks[i].name, last_op'.sms[k].threshold)
                            \in reminders_sent'

C24_DeliveryFailureHasNoEffect == [][C24_Step]_vars

(* a scan has emitted reminders for two tasks, and the delivery for the first task has
   failed while the one for the second task is still running *)
C24_Witness ==
    /\ last_op.op = "_send_sms"
    /\ last_op.outcome = "failed"
    /\ \E thread \in sms_threads :
          /\ thread.uid # last_op.sms[1].uid
          /\ thread.threshold = last_op.sms[1].threshold
    /\ \A i \in DOMAIN tasks :
          ReminderKey(tasks[i].name, last_op.sms[1].threshold) \in reminders_sent

(* C25: a scan starts its deliveries and ends without waiting for them or for those of
   earlier scans: every thread that was running before the scan and every thread the
   scan starts is running after it, and what the scan emits and marks sent is what it
   emits and marks with no delivery outstanding *)
C25_Step ==
    (last_op'.op = "check_for_reminders") =>
        LET scan == ScanTasks(tasks, reminders_sent, <<>>, now')
        IN  /\ sms_threads' = sms_threads \cup {last_op'.sms[k] : k \in DOMAIN last_op'.sms}
            /\ last_op'.fired = scan.fired
            /\ reminders_sent' = scan.sent
            /\ notify_count' = Bump(notify_count, scan.fired)

C25_ScanDoesNotWaitForDeliveries == [][C25_Step]_vars

(* a scan has started deliveries while a delivery of an earlier scan is still running *)
C25_Witness ==
    /\ last_op.op = "check_for_reminders"
    /\ last_op.sms # <<>>
    /\ \E thread \in sms_threads : \A k \in DOMAIN last_op.sms : last_op.sms[k] # thread


-----------------------------------------------------------------------------
(* One student who adds, renames and deletes tasks and attaches files to them *)

AttachNames == {"a/b", "essay", "lab"}
AttachFiles == {"notes.pdf"}

InitAttach ==
    /\ now = StartNow
    /\ LoggedIn("alice", <<>>, 0, DefaultStreak)

NextAttach ==
    \/ \E n \in AttachNames, d \in DueInputs, p \in PriorityInputs : add_task(n, d, p)
    \/ \E row \in DOMAIN tasks, file_name \in AttachFiles, overwrite \in BOOLEAN :
          attach_file_to_selected_task(row, file_name, overwrite)
    \/ \E row \in DOMAIN tasks : \E k \in 1..MaxAttachments : remove_attached_file(row, k)
    \/ \E row \in DOMAIN tasks : edit_task(row)
    \/ \E n \in AttachNames, d \in DueInputs, p \in PriorityInputs : update_task(n, d, p)
    \/ \E row \in DOMAIN tasks : delete_task(row)

SpecAttach == InitAttach /\ [][NextAttach]_vars

(* C26: after delete_task none of the files recorded in the attachments of a task it
   has deleted is left in the attachment storage *)
C26_Step ==
    (last_op'.op = "delete_task") =>
        \A i \in DOMAIN tasks :
            (\A j \in DOMAIN tasks' : tasks'[j].uid # tasks[i].uid) =>
                \A k \in DOMAIN tasks[i].attachments :
                    tasks[i].attachments[k] \notin attachment_files'

C26_DeleteRemovesAttachments == [][C26_Step]_vars


-----------------------------------------------------------------------------
(* Every handler of the student window in one user session, on one task at a time *)

FrameNames == {"essay", "lab"}

NextFrame ==
    \/ /\ tasks = <<>>
       /\ \E d \in DueInputs, p \in PriorityInputs : add_task("essay", d, p)
    \/ \E row \in DOMAIN tasks, file_name \in AttachFiles :
          attach_file_to_selected_task(row, file_name, TRUE)
    \/ \E row \in DOMAIN tasks : \E k \in 1..MaxAttachments : remove_attached_file(row, k)
    \/ \E row \in DOMAIN tasks : edit_task(row)
    \/ \E n \in FrameNames, d \in DueInputs, p \in PriorityInputs : update_task(n, d, p)
    \/ \E row \in DOMAIN tasks : delete_task(row)
    \/ \E row \in DOMAIN tasks : mark_task_complete(row)
    \/ display_tasks
    \/ check_for_reminders

SpecFrame == InitAttach /\ [][NextFrame]_vars

TurnedComplete ==
    \E i \in DOMAIN tasks : \E j \in DOMAIN tasks' :
        /\ tasks'[j].uid = tasks[i].uid
        /\ ~tasks[i].completed
        /\ tasks'[j].completed

(* C27: add_task, update_task, delete_task, attaching and removing an attachment, a
   display refresh and a reminder scan leave the points and the streak state of the
   current user as they are, and a step that changes them is a mark_task_complete that
   turns an incomplete task complete *)
C27_Step ==
    /\ last_op'.op \in {"add_task", "edit_task", "update_task", "delete_task",
                        "attach_file_to_selected_task", "remove_attached_file",
                        "display_tasks", "check_for_reminders"}
          => UNCHANGED <<user_points, user_streak_data>>
    /\ (current_username' = current_username
        /\ <<user_points, user_streak_data>>' # <<user_points, user_streak_data>>)
          => (last_op'.op = "mark_task_complete" /\ TurnedComplete)
    /\ (last_op'.op = "mark_task_complete" /\ ~TurnedComplete)
          => UNCHANGED <<user_points, user_streak_data>>

C27_OnlyCompletionChangesPoints == [][C27_Step]_vars

(* points have been awarded for a task that was edited, and the handler that ran last,
   one of those that must leave them, has removed its attachment *)
C27_Witness ==
    /\ user_points = CompletionPoints
    /\ user_streak_data.current_streak = 1
    /\ last_op.op = "remove_attached_file"
    /\ attachment_files = {}
    /\ \E i \in DOMAIN tasks : tasks[i].completed /\ tasks[i].uid \in edited


-----------------------------------------------------------------------------
(* C28: when mark_task_complete has changed the points or the streak state, the
   gamification file of the current user holds the points and the streak state that are
   in memory, and the user's task file records the completed task as completed *)
C28_Step ==
    (last_op'.op = "mark_task_complete"
     /\ <<user_points, user_streak_data>>' # <<user_points, user_streak_data>>) =>
        /\ gamification_files'[current_username].exists
        /\ gamification_files'[current_username].points = user_points'
        /\ gamification_files'[current_username].streak = user_streak_data'
        /\ task_files'[current_username].exists
        /\ LoadTasks(task_files'[current_username].data) = [i \in DOMAIN tasks |->
              IF tasks[i].uid \in {tasks'[j].uid : j \in {n \in DOMAIN tasks' :
                                        tasks'[n].completed}}
              THEN [tasks[i] EXCEPT !.completed = TRUE] ELSE tasks[i]]
        /\ \E i \in DOMAIN tasks :
              /\ ~tasks[i].completed
              /\ \E k \in DOMAIN task_files'[current_username].data :
                    /\ task_files'[current_username].data[k].uid = tasks[i].uid
                    /\ task_files'[current_username].data[k].completed

C28_CompletionIsPersisted == [][C28_Step]_vars

(* a completion on the day after the previous one has raised the streak to 2, and the
   file holds the raised streak and both awards *)
C28_Witness ==
    /\ last_op.op = "mark_task_complete"
    /\ last_op.awarded > 0
    /\ user_streak_data.current_streak = 2
    /\ user_points = 2 * CompletionPoints
    /\ gamification_files["alice"] =
           [exists |-> TRUE, points |-> user_points, streak |-> user_streak_data]


-----------------------------------------------------------------------------
(* One task whose due date is edited between the scans of one user session *)

EditDues == {StartNow + 2 * TenMinutes, StartNow + 3 * TenMinutes}

InitEdit ==
    /\ now = StartNow
    /\ \E d \in EditDues :
          LoggedIn("alice", <<Task(1, "essay", DueText(d), "Medium", FALSE)>>,
                   0, DefaultStreak)

NextEdit ==
    \/ check_for_reminders
    \/ \E row \in DOMAIN tasks : edit_task(row)
    \/ \E d \in EditDues, p \in PriorityInputs : update_task("essay", d, p)
    \/ Tick(TenMinutes, StartNow + (MaxTicks + 1) * TenMinutes)

SpecEdit == InitEdit /\ [][NextEdit]_vars

(* C29: update_task with a new due date leaves the sent marks as they are; in one user
   session no threshold is emitted twice for the task, whatever its due date has become,
   and a scan still emits, for the due date the task has now, a threshold that is not
   marked sent: the 1-hour and overdue thresholds when their window holds, the 10-minute
   threshold when its window holds and the 1-hour threshold is marked *)
C29_Step ==
    /\ (last_op'.op = "update_task") => reminders_sent' = reminders_sent
    /\ \A k \in DOMAIN notify_count' : notify_count'[k] <= 1
    /\ (last_op'.op = "check_for_reminders") =>
          \A i \in DOMAIN tasks' :
              LET task == tasks'[i]
                  fired == FiredFor(last_op', task)
                  until == strptime(task.due_date) - now'
                  Sent(th) == ReminderKey(task.name, th) \in reminders_sent
              IN  /\ \A th \in Thresholds : Sent(th) => th \notin fired
                  /\ (0 < until /\ until <= OneHour /\ ~Sent("_1hr")) => "_1hr" \in fired
                  /\ (0 < until /\ until <= TenMinutes /\ Sent("_1hr") /\ ~Sent("_10min"))
                        => "_10min" \in fired
                  /\ (until < 0 /\ ~Sent("_overdue")) => "_overdue" \in fired

C29_EditKeepsSentState == [][C29_Step]_vars

(* the 1-hour reminder was emitted for the first due date, the due date was edited, and
   the scan that ran last has emitted the 10-minute reminder for the new due date but
   not the 1-hour reminder again *)
C29_Witness ==
    /\ last_op.op = "check_for_reminders"
    /\ \E i \in DOMAIN tasks :
          /\ tasks[i].uid \in edited
          /\ FiredFor(last_op, tasks[i]) = {"_10min"}
          /\ Count(tasks[i].uid, "_1hr") = 1
          /\ tasks[i].due_date = DueText(StartNow + 3 * TenMinutes)


-----------------------------------------------------------------------------
(* C30: from the default streak state, last_completed_date is null exactly when
   current_streak is 0, in memory and in the gamification files, and after a completion
   current_streak is at least 1 and last_completed_date is the day of the completion *)
C30_StreakStateIsConsistent ==
    /\ (user_streak_data.last_completed_date = NoDate)
          <=> (user_streak_data.current_streak = 0)
    /\ user_streak_data.current_streak >= 0
    /\ \A u \in Students :
          (gamification_files[u].streak.last_completed_date = NoDate)
              <=> (gamification_files[u].streak.current_streak = 0)
    /\ (last_op.op = "mark_task_complete" /\ last_op.awarded > 0) =>
          /\ user_streak_data.current_streak >= 1
          /\ user_streak_data.last_completed_date = strftime_date(DateOf(now))

(* a completion after a gap of a day has set the streak back to 1 on the day of the
   completion *)
C30_Witness ==
    /\ last_op.op = "mark_task_complete"
    /\ last_op.awarded > 0
    /\ user_streak_data.current_streak = 1
    /\ Cardinality(completion_days["alice"]) = 2
    /\ user_streak_data.last_completed_date = strftime_date(DateOf(now))

====
